---- MODULE Spec2Model ----
(***************************************************************************)
(* Historical Rate Explorer (src/app.py): the tolerant CSV loader          *)
(* (load_csv_auto and the upload branch of main), the memoised load of the *)
(* default file, and the view pipeline of main (value-column selection,    *)
(* date filter, resample, rolling mean, quick stats, monthly means).       *)
(*                                                                         *)
(* A CSV text is a sequence of lines, a line a sequence of cells (the      *)
(* fields between commas).  A cell records what the pandas parsers make of *)
(* its text: a name, a calendar date (a day number), a number, or text     *)
(* that is neither.  Day 0 is 1970-01-01.                                  *)
(***************************************************************************)
EXTENDS Integers, Sequences, FiniteSets, TLC

VARIABLES file, cache, uploaded, opts, pc, loaded, df, df_view, rolling,
          stats, monthly, rendered, outcome, parsed

vars == <<file, cache, uploaded, opts, pc, loaded, df, df_view, rolling,
          stats, monthly, rendered, outcome, parsed>>

(* ------------------------------ bounds --------------------------------- *)
MaxMeta == 1
MaxRows == 3
MaxDate == 3
MaxWindow == 3

(* ---------------------- program and library constants ------------------ *)
\* st.sidebar.slider("Rolling window (days)", 2, 60, 7): the smallest window
MinWindow == 2
\* pd.to_datetime of an integer label counts nanoseconds from 1970-01-01
Epoch == 0

(* ------------------------------- cells --------------------------------- *)
Name(s) == [k |-> "name", s |-> s, n |-> 0]
DateCell(d) == [k |-> "date", s |-> "", n |-> d]
NumCell(v) == [k |-> "num", s |-> "", n |-> v]
BadCell == [k |-> "text", s |-> "n/a", n |-> 0]

\* str.strip / str.lower on the field texts the inputs use
LStrip(s) == CASE s = " Date" -> "Date"
               [] s = " Value" -> "Value"
               [] OTHER -> s
RStrip(s) == CASE s = "Date " -> "Date"
               [] OTHER -> s
Strip(s) == RStrip(LStrip(s))
Lower(s) == CASE s = "Date" -> "date"
              [] s = "DATE" -> "date"
              [] s = "Date " -> "date "
              [] s = "Time" -> "time"
              [] s = "Value" -> "value"
              [] s = "Rate" -> "rate"
              [] s = "Fee" -> "fee"
              [] s = "Note" -> "note"
              [] OTHER -> s

\* line.strip().lower().startswith("date,"): the line's text is its fields
\* joined by commas, so it starts with "date," iff a comma follows the first
\* field and that field, left-stripped and lower-cased, is "date".
IsHeaderLine(line) ==
    /\ Len(line) >= 2
    /\ line[1].k = "name"
    /\ Lower(LStrip(line[1].s)) = "date"

\* for i, line in enumerate(lines): if ...: header_idx = i; break
\* (positions are 1-based here; 0 is None)
RECURSIVE ScanHeader(_, _)
ScanHeader(lines, i) ==
    IF i > Len(lines) THEN 0
    ELSE IF IsHeaderLine(lines[i]) THEN i
    ELSE ScanHeader(lines, i + 1)

header_idx(lines) == ScanHeader(lines, 1)

\* a mutant of HeaderSlice: the metadata lines are not stripped
HeaderSliceKeepsMeta(lines, idx) == lines

\* "\n".join(lines[header_idx:])
HeaderSlice(lines, idx) == SubSeq(lines, idx, Len(lines))

(* ------------------------------ frames --------------------------------- *)
\* A DataFrame: the column names, the rows in order, each with its index
\* label, and whether the index is the Date column (labels are datetime.date
\* objects, an object-dtype Index) or the default RangeIndex (labels 0..n-1).
NoFrame == [cols |-> <<>>, rows |-> <<>>, keyed |-> FALSE]

Ok(f) == [ok |-> TRUE, frame |-> f, err |-> ""]
Raise(e) == [ok |-> FALSE, frame |-> NoFrame, err |-> e]
NotEvaluated == [ok |-> FALSE, frame |-> NoFrame, err |-> "not evaluated"]

\* pd.read_csv(..., parse_dates=[0]) followed by
\* df.columns = [c.strip() for c in df.columns].  The inputs are rectangular:
\* every line after the header has the header's number of fields.
read_csv(lines) ==
    IF Len(lines) = 0 THEN Raise("EmptyDataError")
    ELSE Ok([cols |-> [j \in 1..Len(lines[1]) |-> Strip(lines[1][j].s)],
             rows |-> [i \in 1..(Len(lines) - 1) |->
                          [label |-> i - 1, cells |-> lines[i + 1]]],
             keyed |-> FALSE])

HasCol(f, name) == \E j \in 1..Len(f.cols) : f.cols[j] = name

ColPos(f, name) == CHOOSE j \in 1..Len(f.cols) :
                      /\ f.cols[j] = name
                      /\ \A i \in 1..(j - 1) : f.cols[i] # name

\* pd.to_datetime(df["Date"]) raises on a value that is no date
DatesParse(f) == \A i \in 1..Len(f.rows) : f.rows[i].cells[ColPos(f, "Date")].k = "date"

Without(seq, j) == [i \in 1..(Len(seq) - 1) |-> IF i < j THEN seq[i] ELSE seq[i + 1]]

\* df.set_index("Date"), the column holding pd.to_datetime(...).dt.date
set_index(f) ==
    LET j == ColPos(f, "Date") IN
    [cols |-> Without(f.cols, j),
     rows |-> [i \in 1..Len(f.rows) |->
                  [label |-> f.rows[i].cells[j].n,
                   cells |-> Without(f.rows[i].cells, j)]],
     keyed |-> TRUE]

\* the key sort_values("Date") / sort_index() orders by
SortKey(f, row) == IF f.keyed THEN row.label ELSE row.cells[ColPos(f, "Date")].n

RECURSIVE InsertRow(_, _, _)
InsertRow(f, sorted, row) ==
    IF sorted = <<>> THEN <<row>>
    ELSE IF SortKey(f, row) < SortKey(f, sorted[Len(sorted)])
         THEN Append(InsertRow(f, SubSeq(sorted, 1, Len(sorted) - 1), row),
                     sorted[Len(sorted)])
         ELSE Append(sorted, row)

RECURSIVE SortRows(_, _)
SortRows(f, n) ==
    IF n = 0 THEN <<>> ELSE InsertRow(f, SortRows(f, n - 1), f.rows[n])

\* df.sort_values("Date") and df.sort_index(): ascending; rows with equal
\* dates keep their input order (numpy's sort of a short array is an
\* insertion sort)
sort_by_date(f) == [f EXCEPT !.rows = SortRows(f, Len(f.rows))]

(* ------------------------------ loaders -------------------------------- *)
\* A file or an upload: bytes that decode as UTF-8 to lines, or do not.
Text(lines) == [utf8 |-> TRUE, lines |-> lines]
Undecodable == [utf8 |-> FALSE, lines |-> <<>>]

\* load_csv_auto's body (lines 16-34)
load_csv_auto(t) ==
    IF ~t.utf8 THEN Raise("UnicodeDecodeError")
    ELSE LET idx == header_idx(t.lines) IN
         IF idx = 0 THEN read_csv(t.lines)
         ELSE LET r == read_csv(HeaderSlice(t.lines, idx)) IN
              IF ~r.ok THEN r
              ELSE IF HasCol(r.frame, "Date")
                   THEN IF DatesParse(r.frame)
                        THEN Ok(set_index(sort_by_date(r.frame)))
                        ELSE Raise("ValueError")
                   ELSE r

\* the upload branch of main (lines 76-94), inside its try
parse_uploaded(t) ==
    IF ~t.utf8 THEN Raise("UnicodeDecodeError")
    ELSE LET idx == header_idx(t.lines) IN
         IF idx = 0
         THEN LET r == read_csv(t.lines) IN
              IF ~r.ok THEN r
              ELSE IF HasCol(r.frame, "Date")
                   THEN IF DatesParse(r.frame)
                        THEN Ok(sort_by_date(set_index(r.frame)))
                        ELSE Raise("ValueError")
                   ELSE r
         ELSE LET r == read_csv(HeaderSlice(t.lines, idx)) IN
              IF ~r.ok THEN r
              ELSE IF ~HasCol(r.frame, "Date") THEN Raise("KeyError")
              ELSE IF DatesParse(r.frame)
                   THEN Ok(sort_by_date(set_index(r.frame)))
                   ELSE Raise("ValueError")

(* ----------------------- value-column selection ------------------------ *)
\* df.select_dtypes(include=[np.number]): a column is numeric when it has a
\* value and every value is a number (a column without rows is object-dtype)
IsNumeric(f, j) ==
    /\ Len(f.rows) > 0
    /\ \A i \in 1..Len(f.rows) : f.rows[i].cells[j].k = "num"

NumericCols(f) == {j \in 1..Len(f.cols) : IsNumeric(f, j)}

FirstOf(S) == CHOOSE j \in S : \A i \in S : j <= i
LastOf(S) == CHOOSE j \in S : \A i \in S : j >= i

\* a mutant of select_value: numeric[-1] instead of numeric[0]
select_value_last(f) ==
    IF HasCol(f, "Value") THEN Ok(f)
    ELSE IF NumericCols(f) # {}
         THEN Ok([f EXCEPT !.cols[LastOf(NumericCols(f))] = "Value"])
         ELSE Raise("No numeric 'Value' column found in data.")

\* lines 104-110
select_value(f) ==
    IF HasCol(f, "Value") THEN Ok(f)
    ELSE IF NumericCols(f) # {}
         THEN Ok([f EXCEPT !.cols[FirstOf(NumericCols(f))] = "Value"])
         ELSE Raise("No numeric 'Value' column found in data.")

(* ------------------------------ the view ------------------------------- *)
\* pd.to_datetime(df.index): a date label is that day's midnight, an integer
\* label of the RangeIndex is that many nanoseconds after 1970-01-01
Stamp(f, label) == IF f.keyed THEN <<label, 0>> ELSE <<Epoch, label>>

NotAfter(a, b) == a[1] < b[1] \/ (a[1] = b[1] /\ a[2] <= b[2])

\* lines 117-118: mask = (index >= start) & (index <= end); df.loc[mask]
filter_view(f, start, end) ==
    LET InRange(row) == /\ NotAfter(<<start, 0>>, Stamp(f, row.label))
                        /\ NotAfter(Stamp(f, row.label), <<end, 0>>)
    IN [f EXCEPT !.rows = SelectSeq(f.rows, InRange)]

\* DataFrame.resample(freq).mean(), lines 126 and 165.  resample accepts a
\* DatetimeIndex, TimedeltaIndex or PeriodIndex only.  The frames of this
\* program have an Index of datetime.date objects (set_index of the
\* .dt.date column, lines 31-33, 87-88, 93-94) or the RangeIndex, so the
\* call raises TypeError for every frame.
resample_mean(f, freq) == Raise("TypeError")

\* df_view["Value"]
ValueSeries(f) ==
    [i \in 1..Len(f.rows) |-> f.rows[i].cells[ColPos(f, "Value")].n]

\* rolling(window=w, min_periods=1): line 137
MinPeriods == 1

\* the missing value (NaN); a mean is the pair <<sum, number of values>>
NaN == <<0, 0>>

\* the window's running sum: add the entering value, remove the leaving one
RECURSIVE RollSum(_, _, _)
RollSum(x, w, i) ==
    IF i = 0 THEN 0
    ELSE RollSum(x, w, i - 1) + x[i] - (IF i > w THEN x[i - w] ELSE 0)

\* a mutant of rolling_mean: min_periods left at its default, the window
rolling_mean_default_periods(x, w) ==
    [i \in 1..Len(x) |->
        LET nobs == IF i < w THEN i ELSE w
        IN IF nobs >= w THEN <<RollSum(x, w, i), nobs>> ELSE NaN]

\* Series.rolling(window=w, min_periods=1).mean()
rolling_mean(x, w) ==
    [i \in 1..Len(x) |->
        LET nobs == IF i < w THEN i ELSE w
        IN IF nobs >= MinPeriods THEN <<RollSum(x, w, i), nobs>> ELSE NaN]

\* lines 157-158: iloc[-1] of the values and of their pct_change() * 100
quick_stats(x) ==
    LET n == Len(x) IN
    [last |-> x[n],
     change |-> IF n >= 2 THEN <<100 * (x[n] - x[n - 1]), x[n - 1]>> ELSE NaN]

NoStats == [last |-> 0, change |-> NaN]

(* ------------------------- the memoised load --------------------------- *)
\* Path(__file__).parent / "HistoricalRateDetail.csv"
default_path == "HistoricalRateDetail.csv"

NoEntries == [p \in {} |-> NoFrame]

Store(c, path, f) == [p \in (DOMAIN c) \cup {path} |-> IF p = path THEN f ELSE c[p]]

\* a mutant of cached_load: the memoisation is lost, every call parses
cached_load_reparses(c, path, t) ==
    LET r == load_csv_auto(t) IN
    [res |-> r, cache |-> IF r.ok THEN Store(c, path, r.frame) ELSE c,
     parsed |-> TRUE]

\* @st.cache_data on load_csv_auto(path): the entry is keyed by the argument,
\* the path; a call that raises stores nothing
cached_load(c, path, t) ==
    IF path \in DOMAIN c
    THEN [res |-> Ok(c[path]), cache |-> c, parsed |-> FALSE]
    ELSE LET r == load_csv_auto(t) IN
         [res |-> r, cache |-> IF r.ok THEN Store(c, path, r.frame) ELSE c,
          parsed |-> TRUE]

(* -------------------------------- main --------------------------------- *)
\* How a run of main ends: a message shown with st.error followed by return
\* ("error"), an exception that leaves main ("raised"), or its last line
\* ("completed").  "at" is the part of main that ended it.
Running == [kind |-> "running", at |-> "", what |-> ""]
Ended(kind, at, what) == [kind |-> kind, at |-> at, what |-> what]

Missing == [exists |-> FALSE, text |-> Text(<<>>)]
File(t) == [exists |-> TRUE, text |-> t]
NoUpload == [given |-> FALSE, text |-> Text(<<>>)]
Upload(t) == [given |-> TRUE, text |-> t]

\* The run's record: what main has computed and shown so far.
Start(c) ==
    [loaded |-> NotEvaluated, df |-> NoFrame, df_view |-> NoFrame,
     rolling |-> <<>>, stats |-> NoStats, monthly |-> NotEvaluated,
     rendered |-> {}, outcome |-> Running, cache |-> c, parsed |-> FALSE]

\* lines 74-102: the upload is parsed inside try/except Exception; the default
\* file is checked for existence and loaded through the cache, outside any try
LoadStep(r, u, f) ==
    IF u.given
    THEN LET p == parse_uploaded(u.text) IN
         IF p.ok THEN [r EXCEPT !.loaded = p, !.df = p.frame]
         ELSE [r EXCEPT !.loaded = p, !.outcome =
                  Ended("error", "load", "Failed to parse uploaded CSV")]
    ELSE IF ~f.exists
         THEN [r EXCEPT !.outcome = Ended("error", "load", "Default CSV not found")]
         ELSE LET c == cached_load(r.cache, default_path, f.text) IN
              IF c.res.ok
              THEN [r EXCEPT !.loaded = c.res, !.df = c.res.frame,
                             !.cache = c.cache, !.parsed = c.parsed]
              ELSE [r EXCEPT !.loaded = c.res,
                             !.outcome = Ended("raised", "load", c.res.err),
                             !.cache = c.cache, !.parsed = c.parsed]

\* lines 104-110
ValueStep(r) ==
    IF r.outcome.kind # "running" THEN r
    ELSE LET v == select_value(r.df) IN
         IF v.ok THEN [r EXCEPT !.df = v.frame]
         ELSE [r EXCEPT !.outcome = Ended("error", "value", v.err)]

\* sidebar_controls, lines 39-41: the index minimum of a frame without rows
\* is NaN, pd.to_datetime(NaN) is NaT, and st.date_input takes .date() of its
\* values, which NaT does not support
ControlsStep(r) ==
    IF r.outcome.kind # "running" THEN r
    ELSE IF Len(r.df.rows) = 0
         THEN [r EXCEPT !.outcome = Ended("raised", "controls", "ValueError")]
         ELSE r

\* lines 114-118
FilterStep(r, o) ==
    IF r.outcome.kind # "running" THEN r
    ELSE [r EXCEPT !.df_view = filter_view(r.df, o.date_range[1], o.date_range[2])]

\* lines 124-140: the chart of plot_df, resampled unless the frequency is
\* "None", and the rolling overlay of df_view["Value"]
ChartStep(r, o) ==
    IF r.outcome.kind # "running" THEN r
    ELSE LET plot == IF o.resample_freq # "None"
                     THEN resample_mean(r.df_view, o.resample_freq)
                     ELSE Ok(r.df_view) IN
         IF ~plot.ok
         THEN [r EXCEPT !.outcome = Ended("raised", "chart", plot.err)]
         ELSE IF o.smoothing /\ o.rolling_window # 0
              THEN [r EXCEPT !.rolling = rolling_mean(ValueSeries(r.df_view),
                                                      o.rolling_window),
                             !.rendered = @ \cup {"chart", "overlay"}]
              ELSE [r EXCEPT !.rendered = @ \cup {"chart"}]

\* lines 157-160: iloc[-1] of a series without rows raises IndexError
StatsStep(r) ==
    IF r.outcome.kind # "running" THEN r
    ELSE IF Len(r.df_view.rows) = 0
         THEN [r EXCEPT !.outcome = Ended("raised", "stats", "IndexError")]
         ELSE [r EXCEPT !.stats = quick_stats(ValueSeries(r.df_view)),
                        !.rendered = @ \cup {"stats"}]

\* lines 164-167
MonthlyStep(r) ==
    IF r.outcome.kind # "running" THEN r
    ELSE LET m == resample_mean(r.df_view, "M") IN
         IF m.ok THEN [r EXCEPT !.monthly = m, !.rendered = @ \cup {"monthly"}]
         ELSE [r EXCEPT !.monthly = m,
                        !.outcome = Ended("raised", "monthly", m.err)]

\* lines 169-173
ExportStep(r, o) ==
    IF r.outcome.kind # "running" THEN r
    ELSE [r EXCEPT !.rendered = @ \cup (IF o.show_table THEN {"table"} ELSE {})
                                  \cup {"export"},
                   !.outcome = Ended("completed", "end", "")]

main(u, o, f, c) ==
    ExportStep(
      MonthlyStep(
        StatsStep(
          ChartStep(
            FilterStep(
              ControlsStep(
                ValueStep(
                  LoadStep(Start(c), u, f))), o), o))), o)

\* One run of the script: one request.
Main(u, o) ==
    LET r == main(u, o, file, cache) IN
    /\ uploaded' = u
    /\ opts' = o
    /\ loaded' = r.loaded
    /\ df' = r.df
    /\ df_view' = r.df_view
    /\ rolling' = r.rolling
    /\ stats' = r.stats
    /\ monthly' = r.monthly
    /\ rendered' = r.rendered
    /\ outcome' = r.outcome
    /\ cache' = r.cache
    /\ parsed' = r.parsed
    /\ pc' = "done"
    /\ UNCHANGED file

(* ------------------------------ inputs --------------------------------- *)
SeqsUpTo(S, n) == UNION {[1..k -> S] : k \in 0..n}

\* Lines that do not begin with "date,": free text, a line that looks like
\* data, and the single field "Date" (no comma follows it).
MetaLines == {<<Name("junk")>>, <<DateCell(1), NumCell(7)>>, <<Name("Date")>>}

MetaPrefixes == SeqsUpTo(MetaLines, MaxMeta)

\* The columns after the first: "Note" holds text, the others numbers.
ColumnCell(name, i, j) == IF name = "Note" THEN BadCell ELSE NumCell(10 * j + i)

\* The data rows under a header: the first field is the day dates[i], or
\* text that is no date where dates[i] is 0; the number in row i, column j
\* is 10 * j + i.
DataRows(header, dates) ==
    [i \in 1..Len(dates) |->
        [j \in 1..Len(header) |->
            IF j = 1
            THEN (IF dates[i] = 0 THEN BadCell ELSE DateCell(dates[i]))
            ELSE ColumnCell(Strip(header[j].s), i, j)]]

HeaderLine(first, tail) == <<Name(first)>> \o [j \in 1..Len(tail) |-> Name(tail[j])]

Table(meta, first, tail, dates) ==
    Text(meta \o <<HeaderLine(first, tail)>> \o DataRows(HeaderLine(first, tail), dates))

\* first fields of a header line that line 20 matches, and that it does not
MatchedFirst == {"Date", "date", "DATE", " Date"}
FallbackFirst == {"Date ", "Time"}

DateSeqs == SeqsUpTo(0..MaxDate, MaxRows)
GoodDateSeqs == SeqsUpTo(1..MaxDate, MaxRows)

Freqs == {"None", "W", "M", "Q"}

Options(ranges, windows, freqs) ==
    {[date_range |-> r, smoothing |-> w # 0, rolling_window |-> w,
      resample_freq |-> q, show_table |-> TRUE] :
        r \in ranges, w \in windows, q \in freqs}

Ranges == {<<a, b>> \in (0..MaxDate) \X (0..MaxDate) : a <= b}
Windows == {0} \cup (MinWindow..MaxWindow)

\* every range and window without resampling; every frequency with some
AllOptions == Options(Ranges, Windows, {"None"})
              \cup Options({<<0, MaxDate>>, <<1, 1>>}, {0, MinWindow}, Freqs)
FewOptions == Options({<<0, MaxDate>>, <<1, 1>>}, {0}, {"None"})
FirstOptions == [date_range |-> <<0, MaxDate>>, smoothing |-> FALSE,
                 rolling_window |-> 0, resample_freq |-> "None",
                 show_table |-> TRUE]

Blank ==
    /\ loaded = NotEvaluated
    /\ df = NoFrame
    /\ df_view = NoFrame
    /\ rolling = <<>>
    /\ stats = NoStats
    /\ monthly = NotEvaluated
    /\ rendered = {}
    /\ outcome = Running
    /\ parsed = FALSE

(* ------------------- the loaders, applied to a text --------------------- *)
\* The text: metadata lines, a header line that line 20 matches, data rows
\* (and the header line once more after a short table); or a header line it
\* does not match and data rows; or no line at all; or bytes that are not
\* UTF-8.
InitLoader ==
    /\ \E t \in {<<"Value">>, <<"Rate", "Note">>}, d \in DateSeqs :
          \/ \E m \in MetaPrefixes, h \in MatchedFirst :
                \/ file = File(Table(m, h, t, d))
                \/ /\ Len(d) <= 1
                   /\ file = File(Text(Table(m, h, t, d).lines
                                       \o <<HeaderLine("Date", t)>>))
          \/ \E h \in FallbackFirst : file = File(Table(<<>>, h, t, d))
          \/ file = File(Text(<<>>))
          \/ file = File(Undecodable)
    /\ uploaded = Upload(file.text)
    /\ cache = NoEntries
    /\ opts = FirstOptions
    /\ pc = "text"
    /\ Blank

CallLoadCsvAuto ==
    /\ pc = "text"
    /\ loaded' = load_csv_auto(file.text)
    /\ pc' = "load_csv_auto"
    /\ UNCHANGED <<file, cache, uploaded, opts, df, df_view, rolling, stats,
                   monthly, rendered, outcome, parsed>>

CallParseUploaded ==
    /\ pc = "text"
    /\ loaded' = parse_uploaded(uploaded.text)
    /\ pc' = "parse_uploaded"
    /\ UNCHANGED <<file, cache, uploaded, opts, df, df_view, rolling, stats,
                   monthly, rendered, outcome, parsed>>

NextLoader == CallLoadCsvAuto \/ CallParseUploaded

SpecLoader == InitLoader /\ [][NextLoader]_vars

(* ------------------------ one request, any input ------------------------ *)
\* The request's input arrives as an upload or as the default file.
Source(up, t) ==
    IF up THEN uploaded = Upload(t) /\ file = Missing
          ELSE uploaded = NoUpload /\ file = File(t)

\* Texts that differ in their columns and malformed dates under a few
\* options; well-formed series under all options; no upload and no file.
InitView ==
    /\ \/ \E up \in BOOLEAN, h \in {"Date", "date", "Date ", "Time"},
             c \in {<<"Value">>, <<"Rate", "Value">>,
                    <<"Note", "Rate", "Fee">>, <<"Note">>},
             d \in DateSeqs :
             Source(up, Table(<<>>, h, c, d)) /\ opts \in FewOptions
       \/ \E up \in BOOLEAN, t \in {Text(<<>>), Undecodable} :
             Source(up, t) /\ opts \in FewOptions
       \/ \E d \in GoodDateSeqs,
             s \in {<<"Date", TRUE>>, <<"Date", FALSE>>, <<"date", FALSE>>} :
             Source(s[2], Table(<<>>, s[1], <<"Value">>, d)) /\ opts \in AllOptions
       \/ uploaded = NoUpload /\ file = Missing /\ opts \in FewOptions
    /\ cache = NoEntries
    /\ pc = "start"
    /\ Blank

RunMain == pc = "start" /\ Main(uploaded, opts)

SpecView == InitView /\ [][RunMain]_vars

(* -------------------- the session: request after request ---------------- *)
SiteTexts ==
    {Table(<<<<Name("junk")>>>>, "Date", <<"Value">>, <<2, 1>>),
     Table(<<>>, "Date", <<"Value">>, <<1, 3, 2>>),
     Table(<<>>, "date", <<"Value">>, <<2, 1>>),
     Table(<<>>, "Date", <<"Value">>, <<1, 0>>),
     Undecodable}

SiteUploads == {NoUpload, Upload(Table(<<>>, "Date", <<"Value">>, <<3, 1>>))}

SiteOptions == Options({<<0, MaxDate>>, <<2, 2>>}, {0, MinWindow}, {"None", "M"})

Init ==
    /\ file \in {Missing} \cup {File(t) : t \in SiteTexts}
    /\ cache = NoEntries
    /\ uploaded = NoUpload
    /\ opts = FirstOptions
    /\ pc = "idle"
    /\ Blank

Request == \E u \in SiteUploads, o \in SiteOptions : Main(u, o)

\* the default file is replaced on disk
WriteFile ==
    /\ \E t \in SiteTexts : file' = File(t)
    /\ UNCHANGED <<cache, uploaded, opts, pc, loaded, df, df_view, rolling,
                   stats, monthly, rendered, outcome, parsed>>

\* the default file is removed
RemoveFile ==
    /\ file' = Missing
    /\ UNCHANGED <<cache, uploaded, opts, pc, loaded, df, df_view, rolling,
                   stats, monthly, rendered, outcome, parsed>>

Next == Request \/ WriteFile \/ RemoveFile

Spec == Init /\ [][Next]_vars

(* ------------------------------ claims --------------------------------- *)
Called == pc \in {"load_csv_auto", "parse_uploaded"}
LoaderOf(t) == IF pc = "load_csv_auto" THEN load_csv_auto(t) ELSE parse_uploaded(t)
TextLines == file.text.lines
HasHeader == file.text.utf8 /\ \E k \in 1..Len(TextLines) : IsHeaderLine(TextLines[k])
FirstHeader == CHOOSE k \in 1..Len(TextLines) :
                  /\ IsHeaderLine(TextLines[k])
                  /\ \A i \in 1..(k - 1) : ~IsHeaderLine(TextLines[i])
Count(seq, x) == Cardinality({i \in 1..Len(seq) : seq[i] = x})

\* C1: when the text has a line beginning with "date,", the loader's result
\* is the same with any lines not beginning with "date," put before the
\* text, and it is the result for the text from its first such line onward:
\* a loaded table has one row for each line after that first line.
MetadataInvariance ==
    (Called /\ HasHeader) =>
        /\ \A m \in MetaPrefixes : LoaderOf(Text(m \o TextLines)) = loaded
        /\ LoaderOf(Text(SubSeq(TextLines, FirstHeader, Len(TextLines)))) = loaded
        /\ loaded.ok => Len(loaded.frame.rows) = Len(TextLines) - FirstHeader

\* C1: load_csv_auto has loaded a table of two or more rows, keyed by date,
\* from a text whose header line follows metadata.
MetadataInvarianceWitness ==
    /\ pc = "load_csv_auto"
    /\ HasHeader
    /\ FirstHeader > 1
    /\ loaded.ok
    /\ loaded.frame.keyed
    /\ Len(loaded.frame.rows) >= 2

InputRows == SubSeq(TextLines, FirstHeader + 1, Len(TextLines))
InputPairs == [i \in 1..Len(InputRows) |-> <<InputRows[i][1].n, Tail(InputRows[i])>>]
LoadedPairs == [i \in 1..Len(loaded.frame.rows) |->
                   <<loaded.frame.rows[i].label, loaded.frame.rows[i].cells>>]

\* C2: whenever the text has a header line (first field "date" in any case)
\* and data rows, all with dates, the loaded table is keyed by the date, its
\* rows ascend by date and are the input's rows, duplicates included.
LoaderOrdering ==
    (/\ Called
     /\ HasHeader
     /\ Len(InputRows) >= 1
     /\ \A i \in 1..Len(InputRows) : InputRows[i][1].k = "date") =>
        /\ loaded.ok
        /\ loaded.frame.keyed
        /\ \A i \in 1..Len(loaded.frame.rows) : \A j \in i..Len(loaded.frame.rows) :
              loaded.frame.rows[i].label <= loaded.frame.rows[j].label
        /\ Len(LoadedPairs) = Len(InputPairs)
        /\ \A i \in 1..Len(InputPairs) :
              Count(LoadedPairs, InputPairs[i]) = Count(InputPairs, InputPairs[i])

ViewComputed == pc = "done" /\ outcome.at \in {"chart", "stats", "monthly", "end"}

\* C3: a request on a table keyed by date whose date range selects no row,
\* and that reaches the quick stats, ends with a reported error and not with
\* an exception leaving main.
EmptyViewReported ==
    (/\ ViewComputed
     /\ df.keyed
     /\ opts.resample_freq = "None"
     /\ Len(df_view.rows) = 0) =>
        /\ outcome.kind = "error"
        /\ outcome.at = "stats"

\* the date of a row: its index label, or its first column (parse_dates=[0])
RowDate(f, row) == IF f.keyed THEN row.label ELSE row.cells[1].n
Dated(f) == f.keyed \/ \A i \in 1..Len(f.rows) : f.rows[i].cells[1].k = "date"
RowsWithin(f, a, b) ==
    LET Within(row) == a <= RowDate(f, row) /\ RowDate(f, row) <= b
    IN SelectSeq(f.rows, Within)

\* C4: the filtered view holds exactly the rows whose date lies in the
\* request's range, bounds included, in the table's order.
FilterByDate ==
    (ViewComputed /\ Dated(df)) =>
        df_view = [df EXCEPT !.rows = RowsWithin(df, opts.date_range[1],
                                                 opts.date_range[2])]

Column(f, j) == [i \in 1..Len(f.rows) |-> f.rows[i].cells[j]]
FirstNumeric(f) == CHOOSE j \in 1..Len(f.cols) :
                      /\ IsNumeric(f, j)
                      /\ \A i \in 1..(j - 1) : ~IsNumeric(f, i)

\* C5: after a load that succeeded, a column named "Value" is the payload as
\* it stands; without one, the first numeric column, which is not the date
\* column, is the payload under the name "Value" and nothing else changes;
\* without a numeric column the request ends with the error message and has
\* derived no view, statistic or export.
ValueColumnSelection ==
    (pc = "done" /\ loaded.ok) =>
        LET f == loaded.frame IN
        IF HasCol(f, "Value")
        THEN outcome.at # "value" /\ df = f
        ELSE IF \E j \in 1..Len(f.cols) : IsNumeric(f, j)
             THEN /\ outcome.at # "value"
                  /\ df.rows = f.rows
                  /\ df.keyed = f.keyed
                  /\ Len(df.cols) = Len(f.cols)
                  /\ \A j \in 1..Len(f.cols) :
                        df.cols[j] = IF j = FirstNumeric(f) THEN "Value" ELSE f.cols[j]
                  /\ Column(df, ColPos(df, "Value")) = Column(f, FirstNumeric(f))
                  /\ (~f.keyed => FirstNumeric(f) # 1)
             ELSE /\ outcome.kind = "error"
                  /\ outcome.at = "value"
                  /\ df_view = NoFrame
                  /\ stats = NoStats
                  /\ rendered = {}

\* C5: a table without a "Value" column whose first numeric column is not
\* its first column has been loaded, and the request went on past the choice.
ValueColumnSelectionWitness ==
    /\ pc = "done"
    /\ loaded.ok
    /\ loaded.frame.cols = <<"Note", "Rate", "Fee">>
    /\ df.cols = <<"Note", "Value", "Fee">>
    /\ "stats" \in rendered

RECURSIVE SumRange(_, _, _)
SumRange(x, a, b) == IF a > b THEN 0 ELSE x[a] + SumRange(x, a + 1, b)

MonthOf(d) == d \div 31

\* C7: on a table keyed by date, a resample by month yields one row for each
\* month that has a row of the filtered view, and so no more rows than the
\* view: on the chart when "M" is selected, and in the monthly means after
\* the quick stats.
MonthlyBuckets ==
    /\ (ViewComputed /\ df.keyed /\ opts.resample_freq = "M") => outcome.at # "chart"
    /\ (pc = "done" /\ df.keyed /\ "stats" \in rendered) =>
          /\ monthly.ok
          /\ Len(monthly.frame.rows) =
                Cardinality({MonthOf(Stamp(df_view, df_view.rows[i].label)[1]) :
                                i \in 1..Len(df_view.rows)})
          /\ Len(monthly.frame.rows) <= Len(df_view.rows)

\* C8: a request that fails while loading or choosing the value column ends
\* with a message shown to the user and has produced nothing else.
ErrorsReported ==
    (pc = "done" /\ outcome.at \in {"load", "value"}) =>
        /\ outcome.kind = "error"
        /\ rendered = {}
        /\ df_view = NoFrame

\* C9: once the path has an entry the entry stays as it is; a request for the
\* default file that finds the entry gets that table and does not parse,
\* whatever the file holds now; one that finds no entry parses the file as it
\* is now.
LoadMemoized ==
    [][/\ default_path \in DOMAIN cache => cache' = cache
       /\ (pc' = "done" /\ file' = file /\ file.exists /\ ~uploaded'.given) =>
             IF default_path \in DOMAIN cache
             THEN loaded' = Ok(cache[default_path]) /\ ~parsed'
             ELSE /\ parsed'
                  /\ loaded' = load_csv_auto(file.text)
                  /\ (loaded'.ok => cache' = Store(cache, default_path, loaded'.frame))
      ]_vars

\* C9: a request has been served the cached table although the file now
\* parses to another one.
LoadMemoizedWitness ==
    /\ pc = "done"
    /\ ~uploaded.given
    /\ file.exists
    /\ loaded.ok
    /\ ~parsed
    /\ load_csv_auto(file.text).ok
    /\ load_csv_auto(file.text) # loaded

Same(a, b) == a.ok = b.ok /\ (a.ok => a.frame = b.frame)

\* C10: the upload branch of main and load_csv_auto agree on every text:
\* both fail, or both return the same table.
LoaderPathsAgree ==
    /\ pc = "parse_uploaded" => Same(loaded, load_csv_auto(uploaded.text))
    /\ pc = "load_csv_auto" => Same(loaded, parse_uploaded(file.text))

====
